---- MODULE Spec2Model ----
(***************************************************************************)
(* The visited-section progress tracker of src/script.js: the in-memory    *)
(* set state.visitedSections, its persisted mirror in localStorage under   *)
(* CONFIG.STORAGE_KEYS.PROGRESS, the displayed completion percentage, and  *)
(* the event handlers that drive them.                                     *)
(***************************************************************************)
EXTENDS Integers, Sequences, FiniteSets, TLC

(***************************************************************************)
(* Bounds of the model.                                                    *)
(***************************************************************************)
\* Largest number of .section elements of a document.
MaxSections == 2
\* Largest number of entries in one IntersectionObserver delivery.
MaxBatch == 2
\* Largest number of sections of the page read through in PctSpec.
MaxTotal == 40
\* Largest Set saved in RoundTripSpec.
MaxSaved == 3
\* ReadSpec: the stored records hold up to MaxRead ids.
MaxRead == 2
\* At most MaxStray key presses of a lifetime are off the easter egg's sequence.
MaxStray == 2
\* The easter egg is activated at most MaxActivations times in a lifetime.
MaxActivations == 2

(***************************************************************************)
(* JavaScript Numbers.  completedCount / totalCount * 100 is computed in   *)
(* IEEE-754 binary64: every operation rounds its exact result to 53        *)
(* significant bits, ties to even.  A positive double is                   *)
(* [bits, e]: the integer whose binary digits are bits (most significant   *)
(* first), times 2^e; zero has no bits.                                    *)
(***************************************************************************)
\* Significant bits of a binary64 Number.
MantissaBits == 53

RECURSIVE IntBits(_)
\* The binary digits of a natural number, most significant first.
IntBits(n) == IF n = 0 THEN <<>> ELSE Append(IntBits(n \div 2), n % 2)

RECURSIVE BitsInt(_)
\* The natural number a sequence of binary digits denotes.
BitsInt(bits) ==
    IF bits = <<>> THEN 0
    ELSE 2 * BitsInt(SubSeq(bits, 1, Len(bits) - 1)) + bits[Len(bits)]

RECURSIVE Increment(_)
\* bits + 1 (one digit longer when every digit was 1).
Increment(bits) ==
    IF bits = <<>> THEN <<1>>
    ELSE IF bits[Len(bits)] = 0
         THEN Append(SubSeq(bits, 1, Len(bits) - 1), 1)
         ELSE Append(Increment(SubSeq(bits, 1, Len(bits) - 1)), 0)

AllZero(bits) == \A i \in 1..Len(bits) : bits[i] = 0

\* Round the exact value (bits + tail) * 2^e, 0 <= tail < 1, to a double:
\* tailCmp is -1, 0 or 1 as tail is below, at or above one half.
RoundNearestEven(bits, e, tailCmp) ==
    LET up == tailCmp > 0 \/ (tailCmp = 0 /\ bits # <<>> /\ bits[Len(bits)] = 1)
        r  == IF up THEN Increment(bits) ELSE bits
    IN  IF Len(r) > MantissaBits
        THEN [bits |-> SubSeq(r, 1, MantissaBits), e |-> e + 1]
        ELSE [bits |-> r, e |-> e]

\* A double of more digits than the format holds, rounded to the format.
RoundToFormat(bits, e) ==
    IF Len(bits) <= MantissaBits THEN [bits |-> bits, e |-> e]
    ELSE LET drop == Len(bits) - MantissaBits
             kept == SubSeq(bits, 1, MantissaBits)
             tail == SubSeq(bits, MantissaBits + 1, Len(bits))
             cmp  == IF tail[1] = 0 THEN -1
                     ELSE IF AllZero(Tail(tail)) THEN 0 ELSE 1
             r    == RoundNearestEven(kept, 0, cmp)
         IN  [bits |-> r.bits, e |-> e + drop + r.e]

RECURSIVE DivDigits(_, _, _, _)
\* Long division: the quotient's digits from its leading 1 until the format is
\* full, with the remainder left over.
DivDigits(bits, r, t, e) ==
    IF Len(bits) = MantissaBits THEN [bits |-> bits, e |-> e, r |-> r]
    ELSE LET b == IF 2 * r >= t THEN 1 ELSE 0
         IN  DivDigits(IF bits = <<>> /\ b = 0 THEN <<>> ELSE Append(bits, b),
                       2 * r - b * t, t, e - 1)

\* The double c / t of two integers 0 <= c, 1 <= t (each exact as a double).
FloatDiv(c, t) ==
    IF c = 0 THEN [bits |-> <<>>, e |-> 0]
    ELSE LET d == DivDigits(IntBits(c \div t), c % t, t, 0)
             cmp == IF 2 * d.r > t THEN 1 ELSE IF 2 * d.r = t THEN 0 ELSE -1
         IN  RoundNearestEven(d.bits, d.e, cmp)

RECURSIVE MulDigits(_, _, _, _, _)
\* bits * k for a small natural k, digit by digit from the least significant;
\* the carry left after the last digit supplies the leading digits.
MulDigits(bits, i, k, carry, acc) ==
    IF carry = 0 /\ i = 0 THEN acc
    ELSE LET v == (IF i = 0 THEN 0 ELSE bits[i] * k) + carry
         IN  MulDigits(bits, IF i = 0 THEN 0 ELSE i - 1, k, v \div 2,
                       <<v % 2>> \o acc)

\* The double x * k for a small natural k.
FloatMulInt(x, k) ==
    IF x.bits = <<>> THEN x
    ELSE RoundToFormat(MulDigits(x.bits, Len(x.bits), k, 0, <<>>), x.e)

\* Math.round of a non-negative double: the nearest integer, a tie going up.
MathRound(x) ==
    IF x.bits = <<>> THEN 0
    ELSE IF x.e >= 0 THEN BitsInt(x.bits) * (2 ^ x.e)
    ELSE LET n == Len(x.bits)
             f == -x.e
         IN  IF f > n THEN 0
             ELSE BitsInt(SubSeq(x.bits, 1, n - f)) + x.bits[n - f + 1]

\* Math.round((completedCount / totalCount) * 100)
Percentage(completedCount, totalCount) ==
    MathRound(FloatMulInt(FloatDiv(completedCount, totalCount), 100))

(***************************************************************************)
(* JavaScript values.  A string is the sequence of its characters; a       *)
(* number keeps its numeral.  Every value is a record with its tag; the    *)
(* Set holds primitives only (strings, numbers, null), which compare by    *)
(* tag and content as SameValueZero does.                                  *)
(***************************************************************************)
Str(chars) == [tag |-> "string", v |-> chars]
Num(numeral) == [tag |-> "number", v |-> numeral]
Bool(b) == [tag |-> "boolean", v |-> IF b THEN <<"true">> ELSE <<"false">>]
Null == [tag |-> "null", v |-> <<>>]
Undefined == [tag |-> "undefined", v |-> <<>>]
Arr(items) == [tag |-> "array", v |-> items]
\* An object: its own property names in insertion order, and their values.
Obj(keys, vals) == [tag |-> "object", keys |-> keys, v |-> vals]

\* ToBoolean(value) is false: what `value || []` replaces.
Falsy(val) ==
    \/ val.tag \in {"undefined", "null"}
    \/ val.tag = "boolean" /\ val.v = <<"false">>
    \/ val.tag = "string" /\ val.v = <<>>
    \/ val.tag = "number" /\ val.v = <<"0">>

\* Property names of the persisted record (lines 436-437), as strings.
VISITED_SECTIONS == <<"v","i","s","i","t","e","d","S","e","c","t","i","o","n","s">>
LAST_VISITED == <<"l","a","s","t","V","i","s","i","t","e","d">>

RECURSIVE LastIndexOf(_, _, _)
\* The last position of key among keys[1..i], 0 when it is not there.
LastIndexOf(keys, key, i) ==
    IF i = 0 THEN 0
    ELSE IF keys[i] = key THEN i ELSE LastIndexOf(keys, key, i - 1)

\* progress.visitedSections: [threw |-> TRUE] on null and undefined (TypeError),
\* the property's value on an object that has it, undefined on anything else.
GetProperty(val, key) ==
    IF val.tag \in {"null", "undefined"} THEN [threw |-> TRUE, val |-> Undefined]
    ELSE IF val.tag = "object" /\ LastIndexOf(val.keys, key, Len(val.keys)) > 0
         THEN [threw |-> FALSE,
               val |-> val.v[LastIndexOf(val.keys, key, Len(val.keys))]]
         ELSE [threw |-> FALSE, val |-> Undefined]

(***************************************************************************)
(* The Set state.visitedSections: JavaScript Sets iterate in insertion     *)
(* order, so the Set is the sequence of its distinct members.              *)
(***************************************************************************)
Range(seq) == {seq[i] : i \in 1..Len(seq)}

\* Mutant of SetHas: a membership test that never finds the value.
SetHasNever(set, val) == FALSE

\* Set.prototype.has
SetHas(set, val) == val \in Range(set)

\* Mutant of SetAdd: a new value starts a new Set instead of joining the old.
SetAddReplacing(set, val) == IF val \in Range(set) THEN set ELSE <<val>>

\* Set.prototype.add
SetAdd(set, val) == IF SetHas(set, val) THEN set ELSE Append(set, val)

RECURSIVE AddAll(_, _)
AddAll(set, items) ==
    IF items = <<>> THEN set ELSE AddAll(SetAdd(set, Head(items)), Tail(items))

\* new Set(iterable): an array gives its elements, a string its characters;
\* any other value is not iterable (TypeError).
NewSet(val) ==
    IF val.tag = "array" THEN [threw |-> FALSE, set |-> AddAll(<<>>, val.v)]
    ELSE IF val.tag = "string"
         THEN [threw |-> FALSE,
               set |-> AddAll(<<>>, [i \in 1..Len(val.v) |-> Str(<<val.v[i]>>)])]
         ELSE [threw |-> TRUE, set |-> <<>>]

(***************************************************************************)
(* JSON text, as the sequence of its tokens: punctuation, string and       *)
(* number literals, the literal names, and words that are no JSON at all.  *)
(***************************************************************************)
Punct(c) == [k |-> "punct", v |-> <<c>>]
StrTok(chars) == [k |-> "string", v |-> chars]
NumTok(numeral) == [k |-> "number", v |-> numeral]
Lit(name) == [k |-> "literal", v |-> <<name>>]
Word(w) == [k |-> "word", v |-> <<w>>]

\* Mutant of StringifyValue: `value || null` writes the empty string as null.
StringifyValueOrNull(val) ==
    IF val.tag = "string" /\ val.v # <<>> THEN <<StrTok(val.v)>>
    ELSE IF val.tag = "number" THEN <<NumTok(val.v)>>
    ELSE IF val.tag = "boolean" THEN <<Lit(val.v[1])>>
    ELSE <<Lit("null")>>

RECURSIVE StringifyItems(_)
\* Inside an array JSON.stringify writes undefined as null.
StringifyValue(val) ==
    IF val.tag = "string" THEN <<StrTok(val.v)>>
    ELSE IF val.tag = "number" THEN <<NumTok(val.v)>>
    ELSE IF val.tag = "boolean" THEN <<Lit(val.v[1])>>
    ELSE <<Lit("null")>>

StringifyItems(items) ==
    IF items = <<>> THEN <<>>
    ELSE StringifyValue(Head(items))
         \o (IF Len(items) > 1 THEN <<Punct(",")>> ELSE <<>>)
         \o StringifyItems(Tail(items))

\* JSON.stringify({visitedSections: [...], lastVisited: "..."})
StringifyProgress(visited, lastVisited) ==
    <<Punct("{"), StrTok(VISITED_SECTIONS), Punct(":"), Punct("[")>>
    \o StringifyItems(visited)
    \o <<Punct("]"), Punct(","), StrTok(LAST_VISITED), Punct(":"),
         StrTok(lastVisited), Punct("}")>>

Fail == [ok |-> FALSE, val |-> Undefined, rest |-> <<>>]

RECURSIVE ParseValue(_), ParseElements(_, _), ParseMembers(_, _, _)
\* JSON.parse, by recursive descent: the value the text starts with and the
\* tokens after it, or a failure (SyntaxError).
ParseValue(toks) ==
    IF toks = <<>> THEN Fail
    ELSE LET t == Head(toks)
         IN  IF t.k = "string" THEN [ok |-> TRUE, val |-> Str(t.v), rest |-> Tail(toks)]
             ELSE IF t.k = "number" THEN [ok |-> TRUE, val |-> Num(t.v), rest |-> Tail(toks)]
             ELSE IF t = Lit("null") THEN [ok |-> TRUE, val |-> Null, rest |-> Tail(toks)]
             ELSE IF t = Lit("true") THEN [ok |-> TRUE, val |-> Bool(TRUE), rest |-> Tail(toks)]
             ELSE IF t = Lit("false") THEN [ok |-> TRUE, val |-> Bool(FALSE), rest |-> Tail(toks)]
             ELSE IF t = Punct("[")
                  THEN IF Len(toks) > 1 /\ toks[2] = Punct("]")
                       THEN [ok |-> TRUE, val |-> Arr(<<>>), rest |-> Tail(Tail(toks))]
                       ELSE ParseElements(Tail(toks), <<>>)
             ELSE IF t = Punct("{")
                  THEN IF Len(toks) > 1 /\ toks[2] = Punct("}")
                       THEN [ok |-> TRUE, val |-> Obj(<<>>, <<>>), rest |-> Tail(Tail(toks))]
                       ELSE ParseMembers(Tail(toks), <<>>, <<>>)
             ELSE Fail

\* value (, value)* ]
ParseElements(toks, acc) ==
    LET e == ParseValue(toks)
    IN  IF ~e.ok \/ e.rest = <<>> THEN Fail
        ELSE IF Head(e.rest) = Punct("]")
             THEN [ok |-> TRUE, val |-> Arr(Append(acc, e.val)), rest |-> Tail(e.rest)]
        ELSE IF Head(e.rest) = Punct(",")
             THEN ParseElements(Tail(e.rest), Append(acc, e.val))
        ELSE Fail

\* string : value (, string : value)* }
ParseMembers(toks, keys, vals) ==
    IF Len(toks) < 2 \/ toks[1].k # "string" \/ toks[2] # Punct(":") THEN Fail
    ELSE LET e == ParseValue(Tail(Tail(toks)))
         IN  IF ~e.ok \/ e.rest = <<>> THEN Fail
             ELSE IF Head(e.rest) = Punct("}")
                  THEN [ok |-> TRUE,
                        val |-> Obj(Append(keys, toks[1].v), Append(vals, e.val)),
                        rest |-> Tail(e.rest)]
             ELSE IF Head(e.rest) = Punct(",")
                  THEN ParseMembers(Tail(e.rest), Append(keys, toks[1].v),
                                    Append(vals, e.val))
             ELSE Fail

\* JSON.parse(text): the whole text must be one value.
JsonParse(text) ==
    LET r == ParseValue(text)
    IN  IF r.ok /\ r.rest = <<>> THEN [threw |-> FALSE, val |-> r.val]
        ELSE [threw |-> TRUE, val |-> Undefined]

(***************************************************************************)
(* The document.  elements.sections is the list of .section elements, each *)
(* with its id attribute (null when it has none); the navigation links     *)
(* point at the sections, and one may point nowhere (href="#").            *)
(***************************************************************************)
Digit == <<"0", "1", "2", "3", "4", "5", "6", "7", "8", "9">>

RECURSIVE Numeral(_)
Numeral(n) ==
    IF n < 10 THEN <<Digit[n + 1]>>
    ELSE Append(Numeral(n \div 10), Digit[(n % 10) + 1])

\* state.currentSection's initial value, the first section's id.
INTRODUCTION == <<"i","n","t","r","o","d","u","c","t","i","o","n">>

\* The id of the i-th section of the page: "introduction", "s2", "s3", ...
SectionName(i) == IF i = 1 THEN INTRODUCTION ELSE <<"s">> \o Numeral(i)

\* A page of n sections, each with its id.
Page(n) == [i \in 1..n |-> Str(SectionName(i))]

\* The same page with no id attribute on its last section.
PageLastAnonymous(n) == [i \in 1..n |-> IF i = n THEN Null ELSE Str(SectionName(i))]

Documents == {Page(n) : n \in 1..MaxSections}
             \cup {PageLastAnonymous(n) : n \in 1..MaxSections}

\* this.getAttribute('href').substring(1) of the navigation links of a page.
NavTargets(ids) == {id \in Range(ids) : id.tag = "string"} \cup {Str(<<>>)}

\* document.getElementById(sectionId) finds an element.
HasElement(ids, sectionId) == sectionId # Str(<<>>) /\ sectionId \in Range(ids)

(***************************************************************************)
(* localStorage.  An item is absent or holds a text.  What a page may find *)
(* under CONFIG.STORAGE_KEYS.PROGRESS when it starts:                      *)
(***************************************************************************)
Absent == [present |-> FALSE, text |-> <<>>]
Item(text) == [present |-> TRUE, text |-> text]

\* new Date().toISOString(): the instant is written and never read back.
ISO_NOW == <<"2","0","2","4","-","0","1","-","1","5","T","1","0",":","3","0","Z">>

REMOVED == <<"r","e","m","o","v","e","d">>

\* { "visitedSections": <tokens> }
RecordWith(valueTokens) ==
    <<Punct("{"), StrTok(VISITED_SECTIONS), Punct(":")>> \o valueTokens
    \o <<Punct("}")>>

WellFormedRecords ==
    { StringifyProgress(<<>>, ISO_NOW),
      StringifyProgress(<<Str(INTRODUCTION)>>, ISO_NOW),
      StringifyProgress(<<Str(SectionName(2)), Str(INTRODUCTION)>>, ISO_NOW),
      \* a record of an earlier edition of the page, which had more sections
      StringifyProgress(<<Str(REMOVED), Str(INTRODUCTION), Str(SectionName(2))>>,
                        ISO_NOW),
      \* a record with fields this code does not know
      <<Punct("{"), StrTok(<<"v","e","r","s","i","o","n">>), Punct(":"),
        NumTok(<<"2">>), Punct(","), StrTok(VISITED_SECTIONS), Punct(":"),
        Punct("["), StrTok(INTRODUCTION), Punct("]"), Punct(","),
        StrTok(LAST_VISITED), Punct(":"), StrTok(ISO_NOW), Punct("}")>> }

MalformedRecords ==
    { <<Word("not"), Word("json")>>,                               \* not json
      <<Punct("{"), StrTok(VISITED_SECTIONS), Punct(":"), Punct("[")>>,  \* cut short
      <<Lit("null")>>,                                             \* null
      <<NumTok(<<"5">>)>>,                                         \* 5
      <<StrTok(INTRODUCTION)>>,                                    \* "introduction"
      <<Punct("["), StrTok(INTRODUCTION), Punct("]")>>,            \* ["introduction"]
      <<Punct("{"), Punct("}")>>,                                  \* {}
      RecordWith(<<Lit("null")>>),                                 \* null
      RecordWith(<<NumTok(<<"5">>)>>),                             \* 5
      RecordWith(<<Lit("true")>>),                                 \* true
      RecordWith(<<StrTok(<<"a", "b">>)>>),                        \* "ab"
      RecordWith(<<Punct("["), NumTok(<<"1">>), Punct(","),
                   NumTok(<<"2">>), Punct("]")>>),                 \* [1,2]
      RecordWith(<<Punct("{"), Punct("}")>>) }                     \* {}

BootItems == {Absent} \cup {Item(t) : t \in WellFormedRecords \cup MalformedRecords}

(***************************************************************************)
(* State.                                                                  *)
(***************************************************************************)
VARIABLES
    phase,            \* "loading" until the DOMContentLoaded handler has run
    sectionIds,       \* the id attributes of elements.sections
    visitedSections,  \* state.visitedSections
    currentSection,   \* state.currentSection
    storage,          \* localStorage's item under STORAGE_KEYS.PROGRESS
    completedText,    \* elements.completedSections.textContent
    percentageText,   \* elements.progressPercentage.textContent, without the %
    bootItem,         \* history: the item the page found when it started
    passed,           \* history: the arguments markSectionVisited was called with
    setItemCalls,     \* history: how often saveUserProgress called setItem
    inserts,          \* history: how often markSectionVisited added to the Set
    lastCall,         \* history: the most recent call of markSectionVisited
    savedMembers,     \* history: the Set's members at the last accepted setItem
    logged,           \* history: what loadUserProgress wrote to the console
    isSidebarOpen,    \* state.isSidebarOpen
    sidebarActive,    \* elements.sidebar.classList contains 'active'
    innerWidth,       \* window.innerWidth
    resizePending,    \* resizeTimer is a timeout that has not fired yet
    currentTheme,     \* state.currentTheme
    bodyClass,        \* document.body.className
    themeItem,        \* localStorage's item under STORAGE_KEYS.THEME
    themeTrail,       \* history: state.currentTheme before each of the last 2 toggles
    konamiCode,       \* konamiCode
    activations,      \* history: how often activateEasterEgg was called
    keysSince,        \* history: key presses since the last activation
    strays            \* history: key presses that were off the sequence

vars == <<phase, sectionIds, visitedSections, currentSection, storage,
          completedText, percentageText, bootItem, passed, setItemCalls,
          inserts, lastCall, savedMembers, logged, isSidebarOpen, sidebarActive,
          innerWidth, resizePending, currentTheme, bodyClass, themeItem,
          themeTrail, konamiCode, activations, keysSince, strays>>

progressVars == <<visitedSections, storage, completedText, percentageText, passed,
                  setItemCalls, inserts, lastCall, savedMembers, logged>>
sidebarVars == <<isSidebarOpen, sidebarActive, innerWidth, resizePending>>
themeVars == <<currentTheme, bodyClass, themeItem, themeTrail>>
konamiVars == <<konamiCode, activations, keysSince, strays>>

\* The text of an element the script has not written yet.
Unrendered == -1

\* A call's record: its argument, what it returned, by how much the Set grew, and
\* what became of its setItem ("none" when it made none).
NoCall ==
    [called |-> FALSE, arg |-> Undefined, ret |-> Undefined, delta |-> 0,
     write |-> "none"]

\* The part of the state the progress functions read and write; threw says
\* that an exception is propagating.
Machine ==
    [visited |-> visitedSections, storage |-> storage,
     completed |-> completedText, percentage |-> percentageText,
     passed |-> passed, setItemCalls |-> setItemCalls, inserts |-> inserts,
     lastCall |-> lastCall, savedMembers |-> savedMembers, logged |-> logged,
     threw |-> FALSE]

Install(m) ==
    /\ visitedSections' = m.visited
    /\ storage' = m.storage
    /\ completedText' = m.completed
    /\ percentageText' = m.percentage
    /\ passed' = m.passed
    /\ setItemCalls' = m.setItemCalls
    /\ inserts' = m.inserts
    /\ lastCall' = m.lastCall
    /\ savedMembers' = m.savedMembers
    /\ logged' = m.logged

(***************************************************************************)
(* The progress functions (lines 361-379, 434-457).                        *)
(***************************************************************************)
\* updateProgressDisplay(); animateNumber finds the text already at its target.
UpdateProgressDisplay(m, totalCount) ==
    [m EXCEPT !.completed = Len(m.visited),
              !.percentage = Percentage(Len(m.visited), totalCount)]

\* Mutant of SaveUserProgress: only the newest member is written.
SaveNewestOnly(m, accepted) ==
    IF accepted
    THEN [m EXCEPT !.setItemCalls = @ + 1,
                   !.storage = Item(StringifyProgress(
                                   SubSeq(m.visited, Len(m.visited), Len(m.visited)),
                                   ISO_NOW)),
                   !.savedMembers = Range(m.visited)]
    ELSE [m EXCEPT !.setItemCalls = @ + 1, !.threw = TRUE]

\* Mutant of SaveUserProgress: a rejected write takes the newest member back
\* out of the Set.
SaveRollingBack(m, accepted) ==
    IF accepted
    THEN [m EXCEPT !.setItemCalls = @ + 1,
                   !.storage = Item(StringifyProgress(m.visited, ISO_NOW)),
                   !.savedMembers = Range(m.visited)]
    ELSE [m EXCEPT !.setItemCalls = @ + 1, !.threw = TRUE,
                   !.visited = SubSeq(@, 1, Len(@) - 1)]

\* saveUserProgress(): setItem stores the text, or throws when the store
\* rejects the write (quota exceeded, storage disabled).
SaveUserProgress(m, accepted) ==
    IF accepted
    THEN [m EXCEPT !.setItemCalls = @ + 1,
                   !.storage = Item(StringifyProgress(m.visited, ISO_NOW)),
                   !.savedMembers = Range(m.visited)]
    ELSE [m EXCEPT !.setItemCalls = @ + 1, !.threw = TRUE]

\* Mutant of MarkSectionVisited: the save is outside the if, so a call with a
\* member writes too.
MarkAlwaysSaving(m, sectionId, totalCount, accepted) ==
    LET called == [m EXCEPT !.passed = @ \cup {sectionId}]
        done == IF ~SetHas(m.visited, sectionId)
                THEN SaveUserProgress(
                         UpdateProgressDisplay(
                             [called EXCEPT !.visited = SetAdd(@, sectionId),
                                            !.inserts = @ + 1],
                             totalCount),
                         accepted)
                ELSE SaveUserProgress(called, accepted)
    IN  [done EXCEPT !.lastCall =
             [called |-> TRUE, arg |-> sectionId, ret |-> Undefined,
              delta |-> Len(done.visited) - Len(m.visited),
              write |-> IF done.setItemCalls = m.setItemCalls THEN "none"
                        ELSE IF done.threw THEN "rejected" ELSE "accepted"]]

\* markSectionVisited(sectionId); the function has no return statement.
MarkSectionVisited(m, sectionId, totalCount, accepted) ==
    LET called == [m EXCEPT !.passed = @ \cup {sectionId}]
        done == IF ~SetHas(m.visited, sectionId)
                THEN SaveUserProgress(
                         UpdateProgressDisplay(
                             [called EXCEPT !.visited = SetAdd(@, sectionId),
                                            !.inserts = @ + 1],
                             totalCount),
                         accepted)
                ELSE called
    IN  [done EXCEPT !.lastCall =
             [called |-> TRUE, arg |-> sectionId, ret |-> Undefined,
              delta |-> Len(done.visited) - Len(m.visited),
              write |-> IF done.setItemCalls = m.setItemCalls THEN "none"
                        ELSE IF done.threw THEN "rejected" ELSE "accepted"]]

\* Mutant of LoadUserProgress: a record with a field other than the two that
\* saveUserProgress writes is turned down as an error.
LoadUserProgressStrict(m, totalCount) ==
    IF ~m.storage.present \/ m.storage.text = <<>> THEN m
    ELSE LET parsed == JsonParse(m.storage.text)
             prop == GetProperty(parsed.val, VISITED_SECTIONS)
             made == NewSet(IF Falsy(prop.val) THEN Arr(<<>>) ELSE prop.val)
             unknown == /\ ~parsed.threw
                        /\ parsed.val.tag = "object"
                        /\ \E i \in 1..Len(parsed.val.keys) :
                              parsed.val.keys[i] \notin {VISITED_SECTIONS, LAST_VISITED}
         IN  IF parsed.threw \/ prop.threw \/ made.threw \/ unknown
             THEN [m EXCEPT !.logged = "error"]
             ELSE UpdateProgressDisplay(
                      [m EXCEPT !.visited = made.set, !.logged = "loaded"],
                      totalCount)

\* loadUserProgress(): an exception thrown in the try block leaves the Set as
\* it was and is logged by the catch block.
LoadUserProgress(m, totalCount) ==
    IF ~m.storage.present \/ m.storage.text = <<>> THEN m
    ELSE LET parsed == JsonParse(m.storage.text)
             prop == GetProperty(parsed.val, VISITED_SECTIONS)
             made == NewSet(IF Falsy(prop.val) THEN Arr(<<>>) ELSE prop.val)
         IN  IF parsed.threw \/ prop.threw \/ made.threw
             THEN [m EXCEPT !.logged = "error"]
             ELSE UpdateProgressDisplay(
                      [m EXCEPT !.visited = made.set, !.logged = "loaded"],
                      totalCount)

(***************************************************************************)
(* The theme (lines 75-100).                                               *)
(***************************************************************************)
DARK == "dark-theme"
LIGHT == "light-theme"

\* localStorage's item under CONFIG.STORAGE_KEYS.THEME: absent (getItem gives
\* null) or a string.
NoTheme == [present |-> FALSE, text |-> ""]
Theme(text) == [present |-> TRUE, text |-> text]

\* What a page may find under the theme key: nothing, what toggleTheme wrote,
\* the empty string, or what another version of the site wrote.
StoredThemes == {NoTheme, Theme(DARK), Theme(LIGHT), Theme(""), Theme("blue-theme")}

\* initializeTheme(): localStorage.getItem(...) || CONFIG.THEMES.DARK
InitializeTheme ==
    LET savedTheme == IF themeItem.present /\ themeItem.text # ""
                      THEN themeItem.text ELSE DARK
    IN  /\ currentTheme' = savedTheme
        /\ bodyClass' = savedTheme
        /\ UNCHANGED <<themeItem, themeTrail>>

\* The themes before the last two toggles.
Trail(trail, theme) ==
    IF Len(trail) < 2 THEN Append(trail, theme) ELSE <<trail[2], theme>>

\* Mutant of ToggleTheme: the store is written before the state is switched.
ToggleThemeStale(accepted) ==
    LET theme == IF currentTheme = DARK THEN LIGHT ELSE DARK
    IN  /\ currentTheme' = theme
        /\ bodyClass' = theme
        /\ themeItem' = IF accepted THEN Theme(currentTheme) ELSE themeItem
        /\ themeTrail' = Trail(themeTrail, currentTheme)

\* toggleTheme(): setItem stores the theme, or throws when the store rejects
\* the write; state and body class are switched before.
ToggleTheme(accepted) ==
    LET theme == IF currentTheme = DARK THEN LIGHT ELSE DARK
    IN  /\ currentTheme' = theme
        /\ bodyClass' = theme
        /\ themeItem' = IF accepted THEN Theme(theme) ELSE themeItem
        /\ themeTrail' = Trail(themeTrail, currentTheme)

(***************************************************************************)
(* The sidebar (lines 398-431).                                            *)
(***************************************************************************)
\* window.innerWidth <= 768
MobileWidth == 768

Widths == {MobileWidth - 1, MobileWidth, MobileWidth + 1}

\* toggleSidebar()
ToggleSidebar ==
    /\ isSidebarOpen' = ~isSidebarOpen
    /\ sidebarActive' = IF ~isSidebarOpen THEN TRUE ELSE FALSE

\* Mutant of CloseSidebar: the class is removed and the flag is left alone.
CloseSidebarClassOnly ==
    /\ isSidebarOpen' = isSidebarOpen
    /\ sidebarActive' = FALSE

\* closeSidebar()
CloseSidebar ==
    /\ isSidebarOpen' = FALSE
    /\ sidebarActive' = FALSE

\* The document's click listener, on a click inside the sidebar or elsewhere
\* (not on the sidebar's toggle).
OutsideClick(inSidebar) ==
    IF innerWidth <= MobileWidth /\ isSidebarOpen /\ ~inSidebar
    THEN CloseSidebar
    ELSE UNCHANGED <<isSidebarOpen, sidebarActive>>

(***************************************************************************)
(* The keyboard (lines 516-556, 645-656).                                  *)
(***************************************************************************)
konamiSequence ==
    <<"ArrowUp", "ArrowUp", "ArrowDown", "ArrowDown", "ArrowLeft", "ArrowRight",
      "ArrowLeft", "ArrowRight", "b", "a">>

\* The keys a key press can report: those of the sequence, Escape and the comma.
Keys == Range(konamiSequence) \cup {"Escape", ","}

\* konamiCode.slice(-10)
SliceCount == 10

\* array.slice(-n): the last n elements, all of them when there are fewer.
SliceLast(array, n) ==
    IF Len(array) <= n THEN array ELSE SubSeq(array, Len(array) - n + 1, Len(array))

RECURSIVE Join(_)
\* array.join(',')
Join(array) ==
    IF array = <<>> THEN ""
    ELSE IF Len(array) = 1 THEN array[1]
    ELSE array[1] \o "," \o Join(Tail(array))

\* The key that carries on the sequence from what konamiCode ends with.
ExpectedKey ==
    LET fits(k) == SubSeq(konamiCode, Len(konamiCode) - k + 1, Len(konamiCode))
                     = SubSeq(konamiSequence, 1, k)
        most == CHOOSE k \in 0..Len(konamiCode) :
                   /\ k < Len(konamiSequence)
                   /\ fits(k)
                   /\ \A j \in (k + 1)..Len(konamiCode) :
                         ~(j < Len(konamiSequence) /\ fits(j))
    IN  konamiSequence[most + 1]

\* Mutant of KonamiKeydown: the buffer is not emptied after the easter egg.
KonamiKeydownKeeping(key) ==
    LET code == SliceLast(Append(konamiCode, key), SliceCount)
        hit == Join(code) = Join(konamiSequence)
    IN  /\ konamiCode' = code
        /\ activations' = IF hit THEN activations + 1 ELSE activations
        /\ keysSince' = IF hit THEN 0 ELSE keysSince + 1
        /\ strays' = IF key = ExpectedKey THEN strays ELSE strays + 1

\* The keydown listener of lines 648-656.
KonamiKeydown(key) ==
    LET code == SliceLast(Append(konamiCode, key), SliceCount)
        hit == Join(code) = Join(konamiSequence)
    IN  /\ konamiCode' = IF hit THEN <<>> ELSE code
        /\ activations' = IF hit THEN activations + 1 ELSE activations
        /\ keysSince' = IF hit THEN 0 ELSE keysSince + 1
        /\ strays' = IF key = ExpectedKey THEN strays ELSE strays + 1

\* Array.from(elements.sections).findIndex(section => section.id === id), from 0.
FindIndex(ids, id) ==
    IF \E i \in 1..Len(ids) : ids[i] = id
    THEN (CHOOSE i \in 1..Len(ids) :
             ids[i] = id /\ \A j \in 1..(i - 1) : ids[j] # id) - 1
    ELSE -1

\* navigateSection(direction): the value of state.currentSection afterwards.
NavigateSection(direction) ==
    LET length == Len(sectionIds)
        currentIndex == FindIndex(sectionIds, currentSection)
        newIndex == IF direction = "next" THEN (currentIndex + 1) % length
                    ELSE IF currentIndex - 1 < 0 THEN length - 1
                    ELSE currentIndex - 1
        newSection == sectionIds[newIndex + 1]
        id == IF newSection.tag = "string" THEN newSection ELSE Str(<<>>)
    IN  IF HasElement(sectionIds, id) THEN id ELSE currentSection

(***************************************************************************)
(* The handlers.  Each runs to completion; an exception nothing catches    *)
(* ends the handler where it is thrown.                                    *)
(***************************************************************************)
\* entry.intersectionRatio > 0.5, with ratios in hundredths.
RatioThreshold == 50

\* What an IntersectionObserverEntry of a section can report.
EntryKinds ==
    { [isIntersecting |-> FALSE, ratio |-> 0],
      [isIntersecting |-> TRUE, ratio |-> RatioThreshold],
      [isIntersecting |-> TRUE, ratio |-> 75] }

Entries(ids) ==
    {[target |-> i, isIntersecting |-> k.isIntersecting, ratio |-> k.ratio] :
        i \in 1..Len(ids), k \in EntryKinds}

RECURSIVE ForEachEntry(_, _, _, _)
\* entries.forEach(entry => ...) of the sectionObserver callback; accepted says
\* whether the store takes writes while the handler runs.
ForEachEntry(m, entries, ids, accepted) ==
    IF entries = <<>> \/ m.threw THEN m
    ELSE LET entry == Head(entries)
         IN  IF entry.isIntersecting /\ entry.ratio > RatioThreshold
             THEN ForEachEntry(
                      MarkSectionVisited(m, ids[entry.target], Len(ids), accepted),
                      Tail(entries), ids, accepted)
             ELSE ForEachEntry(m, Tail(entries), ids, accepted)

\* The script's module-level state (lines 22-28) and the page as served.
Fresh ==
    /\ phase = "loading"
    /\ visitedSections = <<>>
    /\ currentSection = Str(INTRODUCTION)
    /\ completedText = Unrendered
    /\ percentageText = Unrendered
    /\ passed = {}
    /\ setItemCalls = 0
    /\ inserts = 0
    /\ lastCall = NoCall
    /\ logged = "none"
    /\ isSidebarOpen = FALSE
    /\ sidebarActive = FALSE
    /\ resizePending = FALSE
    /\ currentTheme = DARK
    /\ bodyClass = ""
    /\ themeTrail = <<>>
    /\ konamiCode = <<>>
    /\ activations = 0
    /\ keysSince = 0
    /\ strays = 0

\* A reader on a wide window who never chose a theme.
WideNoTheme ==
    /\ innerWidth = MobileWidth + 1
    /\ themeItem = NoTheme

Init ==
    /\ Fresh
    /\ WideNoTheme
    /\ sectionIds \in Documents
    /\ storage \in BootItems
    /\ bootItem = storage
    /\ savedMembers = {}

\* The DOMContentLoaded handler: initializeTheme applies the stored theme,
\* initializeNavigation scrolls to the section the URL's hash names,
\* loadUserProgress hydrates the Set.
DOMContentLoaded(hash) ==
    /\ phase = "loading"
    /\ phase' = "ready"
    /\ InitializeTheme
    /\ currentSection' = IF HasElement(sectionIds, hash) THEN hash ELSE currentSection
    /\ Install(LoadUserProgress(Machine, Len(sectionIds)))
    /\ UNCHANGED <<sectionIds, bootItem, sidebarVars, konamiVars>>

\* Mutant of HandleNavClick: the handler reads the stored progress back after
\* marking.
HandleNavClickRehydrating(targetId, accepted) ==
    /\ phase = "ready"
    /\ currentSection' = IF HasElement(sectionIds, targetId) THEN targetId
                         ELSE currentSection
    /\ IF innerWidth <= MobileWidth THEN CloseSidebar
       ELSE UNCHANGED <<isSidebarOpen, sidebarActive>>
    /\ Install(LoadUserProgress(
                   MarkSectionVisited(Machine, targetId, Len(sectionIds), accepted),
                   Len(sectionIds)))
    /\ UNCHANGED <<phase, sectionIds, bootItem, innerWidth, resizePending,
                   themeVars, konamiVars>>

\* handleNavClick on a link whose href is "#" + targetId; the link is in the
\* sidebar, so the document's click listener finds nothing to close.
HandleNavClick(targetId, accepted) ==
    /\ phase = "ready"
    /\ currentSection' = IF HasElement(sectionIds, targetId) THEN targetId
                         ELSE currentSection
    /\ IF innerWidth <= MobileWidth THEN CloseSidebar
       ELSE UNCHANGED <<isSidebarOpen, sidebarActive>>
    /\ Install(MarkSectionVisited(Machine, targetId, Len(sectionIds), accepted))
    /\ UNCHANGED <<phase, sectionIds, bootItem, innerWidth, resizePending,
                   themeVars, konamiVars>>

\* updateActiveNavLink, with found the id attribute of the section the scroll
\* position lies in ('' when it lies in none).
UpdateActiveNavLink(found, accepted) ==
    /\ phase = "ready"
    /\ IF ~Falsy(found) /\ found # currentSection
       THEN /\ currentSection' = found
            /\ Install(MarkSectionVisited(Machine, found, Len(sectionIds), accepted))
       ELSE /\ currentSection' = currentSection
            /\ Install(Machine)
    /\ UNCHANGED <<phase, sectionIds, bootItem, sidebarVars, themeVars, konamiVars>>

\* The sectionObserver callback on one delivery of entries.
SectionObserverCallback(entries, accepted) ==
    /\ phase = "ready"
    /\ Install(ForEachEntry(Machine, entries, sectionIds, accepted))
    /\ UNCHANGED <<phase, sectionIds, bootItem, currentSection, sidebarVars,
                   themeVars, konamiVars>>

Deliveries(ids) == UNION {[1..n -> Entries(ids)] : n \in 1..MaxBatch}

Next ==
    \/ \E hash \in NavTargets(sectionIds) : DOMContentLoaded(hash)
    \/ \E targetId \in NavTargets(sectionIds), accepted \in BOOLEAN :
          HandleNavClick(targetId, accepted)
    \/ \E found \in Range(sectionIds) \cup {Str(<<>>)}, accepted \in BOOLEAN :
          UpdateActiveNavLink(found, accepted)
    \/ \E entries \in Deliveries(sectionIds), accepted \in BOOLEAN :
          SectionObserverCallback(entries, accepted)

\* One page lifetime from any document and any stored item.
Spec == Init /\ [][Next]_vars

(***************************************************************************)
(* PctSpec: a reader with no stored progress goes through a page of up to  *)
(* MaxTotal sections from top to bottom, each section coming fully into    *)
(* view in turn.                                                           *)
(***************************************************************************)
PctInit ==
    /\ Fresh
    /\ WideNoTheme
    /\ sectionIds \in {Page(n) : n \in 1..MaxTotal}
    /\ storage = Absent
    /\ bootItem = storage
    /\ savedMembers = {}

NextSectionSeen ==
    /\ Len(visitedSections) < Len(sectionIds)
    /\ SectionObserverCallback(
           <<[target |-> Len(visitedSections) + 1, isIntersecting |-> TRUE,
              ratio |-> 100]>>, TRUE)

PctNext ==
    \/ DOMContentLoaded(Str(<<>>))
    \/ NextSectionSeen

PctSpec == PctInit /\ [][PctNext]_vars

(***************************************************************************)
(* RoundTripSpec: a page holding any Set of up to MaxSaved strings, none   *)
(* of it stored yet, saves it; the page is loaded again and hydrates.      *)
(***************************************************************************)
IdPool ==
    { Str(INTRODUCTION), Str(SectionName(2)), Str(<<>>),
      Str(<<"n","u","l","l">>), Str(<<"a">>) }

\* The Sets of at most n members of IdPool, in every insertion order.
RECURSIVE SetsUpTo(_)
SetsUpTo(n) ==
    IF n = 0 THEN {<<>>}
    ELSE SetsUpTo(n - 1)
         \cup {Append(set, id) : set \in {x \in SetsUpTo(n - 1) : Len(x) = n - 1},
                                 id \in IdPool}

RoundTripInit ==
    /\ phase = "ready"
    /\ sectionIds = Page(MaxSections)
    /\ visitedSections \in {set \in SetsUpTo(MaxSaved) :
                               Cardinality(Range(set)) = Len(set)}
    /\ currentSection = Str(INTRODUCTION)
    /\ completedText = Len(visitedSections)
    /\ percentageText = Percentage(Len(visitedSections), Len(sectionIds))
    /\ passed = Range(visitedSections)
    /\ setItemCalls = Len(visitedSections)
    /\ inserts = Len(visitedSections)
    /\ lastCall = NoCall
    /\ logged = "none"
    /\ storage = Absent
    /\ bootItem = Absent
    /\ savedMembers = {}
    /\ WideNoTheme
    /\ isSidebarOpen = FALSE
    /\ sidebarActive = FALSE
    /\ resizePending = FALSE
    /\ currentTheme = DARK
    /\ bodyClass = DARK
    /\ themeTrail = <<>>
    /\ konamiCode = <<>>
    /\ activations = 0
    /\ keysSince = 0
    /\ strays = 0

\* saveUserProgress(), the store accepting the write.
Save ==
    /\ phase = "ready"
    /\ ~storage.present
    /\ Install(SaveUserProgress(Machine, TRUE))
    /\ UNCHANGED <<phase, sectionIds, bootItem, currentSection, sidebarVars,
                   themeVars, konamiVars>>

\* The page is left and loaded again: the script starts over, the store stays.
Reload ==
    /\ phase = "ready"
    /\ storage.present
    /\ phase' = "loading"
    /\ visitedSections' = <<>>
    /\ currentSection' = Str(INTRODUCTION)
    /\ completedText' = Unrendered
    /\ percentageText' = Unrendered
    /\ passed' = {}
    /\ setItemCalls' = 0
    /\ inserts' = 0
    /\ lastCall' = NoCall
    /\ logged' = "none"
    /\ bootItem' = storage
    /\ isSidebarOpen' = FALSE
    /\ sidebarActive' = FALSE
    /\ resizePending' = FALSE
    /\ currentTheme' = DARK
    /\ bodyClass' = ""
    /\ themeTrail' = <<>>
    /\ konamiCode' = <<>>
    /\ activations' = 0
    /\ keysSince' = 0
    /\ strays' = 0
    /\ UNCHANGED <<sectionIds, storage, savedMembers, innerWidth, themeItem>>

RoundTripNext ==
    \/ Save
    \/ Reload
    \/ DOMContentLoaded(Str(<<>>))

RoundTripSpec == RoundTripInit /\ [][RoundTripNext]_vars

(***************************************************************************)
(* The handlers of the sidebar, the theme toggle, the window and the       *)
(* keyboard.                                                               *)
(***************************************************************************)
\* A click on the sidebar's toggle: toggleSidebar; the document's listener
\* finds the click on the toggle and closes nothing.
SidebarToggleClick ==
    /\ phase = "ready"
    /\ ToggleSidebar
    /\ UNCHANGED <<phase, sectionIds, bootItem, currentSection, progressVars,
                   innerWidth, resizePending, themeVars, konamiVars>>

\* A click on the sidebar's close button: closeSidebar; the document's
\* listener then finds the sidebar closed.
SidebarCloseClick ==
    /\ phase = "ready"
    /\ CloseSidebar
    /\ UNCHANGED <<phase, sectionIds, bootItem, currentSection, progressVars,
                   innerWidth, resizePending, themeVars, konamiVars>>

\* A click on something that has no listener of its own.
DocumentClick(inSidebar) ==
    /\ phase = "ready"
    /\ OutsideClick(inSidebar)
    /\ UNCHANGED <<phase, sectionIds, bootItem, currentSection, progressVars,
                   innerWidth, resizePending, themeVars, konamiVars>>

\* A click on the theme toggle: toggleTheme, then the document's listener,
\* which runs whether or not toggleTheme threw.
ThemeToggleClick(accepted, inSidebar) ==
    /\ phase = "ready"
    /\ ToggleTheme(accepted)
    /\ OutsideClick(inSidebar)
    /\ UNCHANGED <<phase, sectionIds, bootItem, currentSection, progressVars,
                   innerWidth, resizePending, konamiVars>>

\* The resize listener: the pending timeout is cleared and a new one is set.
Resize(width) ==
    /\ innerWidth' = width
    /\ resizePending' = TRUE
    /\ UNCHANGED <<phase, sectionIds, bootItem, currentSection, progressVars,
                   isSidebarOpen, sidebarActive, themeVars, konamiVars>>

\* The timeout of the resize listener fires.
ResizeTimeout ==
    /\ resizePending
    /\ resizePending' = FALSE
    /\ IF innerWidth > MobileWidth /\ isSidebarOpen THEN CloseSidebar
       ELSE UNCHANGED <<isSidebarOpen, sidebarActive>>
    /\ UNCHANGED <<phase, sectionIds, bootItem, currentSection, progressVars,
                   innerWidth, themeVars, konamiVars>>

\* A key press: the keydown listener of lines 516-538, then that of lines
\* 648-656.
KeyDown(key, altKey) ==
    /\ activations < MaxActivations
    /\ key = ExpectedKey \/ strays < MaxStray
    /\ IF key = "Escape" /\ isSidebarOpen THEN CloseSidebar
       ELSE UNCHANGED <<isSidebarOpen, sidebarActive>>
    /\ currentSection' = IF altKey /\ key = "ArrowUp" THEN NavigateSection("prev")
                         ELSE IF altKey /\ key = "ArrowDown"
                         THEN NavigateSection("next")
                         ELSE currentSection
    /\ KonamiKeydown(key)
    /\ UNCHANGED <<phase, sectionIds, bootItem, progressVars, innerWidth,
                   resizePending, themeVars>>

(***************************************************************************)
(* ChromeSpec: a reader on a page of one section, at any of the widths     *)
(* around the mobile breakpoint and with any stored theme, uses the        *)
(* sidebar, the theme toggle, the navigation links and the Escape key and  *)
(* resizes the window.                                                     *)
(***************************************************************************)
ChromeInit ==
    /\ Fresh
    /\ sectionIds = Page(1)
    /\ storage = Absent
    /\ bootItem = storage
    /\ savedMembers = {}
    /\ innerWidth \in Widths
    /\ themeItem \in StoredThemes

ChromeNext ==
    \/ \E hash \in NavTargets(sectionIds) : DOMContentLoaded(hash)
    \/ SidebarToggleClick
    \/ SidebarCloseClick
    \/ \E inSidebar \in BOOLEAN : DocumentClick(inSidebar)
    \/ \E accepted \in BOOLEAN, inSidebar \in BOOLEAN :
          ThemeToggleClick(accepted, inSidebar)
    \/ \E width \in Widths : Resize(width)
    \/ ResizeTimeout
    \/ KeyDown("Escape", FALSE)
    \/ \E targetId \in NavTargets(sectionIds), accepted \in BOOLEAN :
          HandleNavClick(targetId, accepted)

ChromeSpec == ChromeInit /\ [][ChromeNext]_vars

(***************************************************************************)
(* KonamiSpec: a reader presses keys, with or without Alt, before and      *)
(* after the page has loaded.                                              *)
(***************************************************************************)
KonamiInit ==
    /\ Fresh
    /\ WideNoTheme
    /\ sectionIds = Page(MaxSections)
    /\ storage = Absent
    /\ bootItem = storage
    /\ savedMembers = {}

KonamiNext ==
    \/ DOMContentLoaded(Str(<<>>))
    \/ \E key \in Keys, altKey \in BOOLEAN : KeyDown(key, altKey)

KonamiSpec == KonamiInit /\ [][KonamiNext]_vars

(***************************************************************************)
(* ReadSpec: an earlier lifetime of the page saved a Set of up to MaxRead  *)
(* strings; the page now starts on the record as it was written, on the    *)
(* same record with fields added that this code does not know, or on no    *)
(* record at all.                                                          *)
(***************************************************************************)
\* The record saveUserProgress writes for visited, with unknown fields added
\* before, after or around the two known ones.
WithUnknownFields(visited, variant) ==
    LET text == StringifyProgress(visited, ISO_NOW)
        known == SubSeq(text, 2, Len(text) - 1)
        version == <<StrTok(<<"v","e","r","s","i","o","n">>), Punct(":"),
                     NumTok(<<"2">>)>>
        theme == <<StrTok(<<"t","h","e","m","e">>), Punct(":"),
                   StrTok(<<"d","a","r","k">>)>>
        meta == <<StrTok(<<"m","e","t","a">>), Punct(":"), Punct("{"),
                  StrTok(VISITED_SECTIONS), Punct(":"), Punct("["),
                  StrTok(REMOVED), Punct("]"), Punct("}")>>
        bookmarks == <<StrTok(<<"b","o","o","k","m","a","r","k","s">>), Punct(":"),
                       Punct("["), StrTok(REMOVED), Punct("]")>>
        notes == <<StrTok(<<"n","o","t","e","s">>), Punct(":"), Lit("null")>>
        comma == <<Punct(",")>>
    IN  CASE variant = 0 -> text
          [] variant = 1 -> <<Punct("{")>> \o version \o comma \o known
                            \o <<Punct("}")>>
          [] variant = 2 -> <<Punct("{")>> \o known \o comma \o theme
                            \o <<Punct("}")>>
          [] variant = 3 -> <<Punct("{")>> \o meta \o comma \o known
                            \o <<Punct("}")>>
          [] variant = 4 -> <<Punct("{")>> \o bookmarks \o comma \o known
                            \o comma \o notes \o <<Punct("}")>>

FieldVariants == 0..4

ReadInit ==
    /\ Fresh
    /\ WideNoTheme
    /\ sectionIds = Page(MaxSections)
    /\ \E visited \in {set \in SetsUpTo(MaxRead) : Cardinality(Range(set)) = Len(set)} :
          /\ savedMembers = Range(visited)
          /\ storage \in {Absent} \cup {Item(WithUnknownFields(visited, variant)) :
                                          variant \in FieldVariants}
    /\ bootItem = storage

ReadNext == \E hash \in NavTargets(sectionIds) : DOMContentLoaded(hash)

ReadSpec == ReadInit /\ [][ReadNext]_vars

(***************************************************************************)
(* Properties.                                                             *)
(***************************************************************************)
\* One call markSectionVisited(x) on its own: a click on the link to x.
CallOf(x) == \E accepted \in BOOLEAN : HandleNavClick(x, accepted)

\* C1: on a page that found no stored record, the Set's members are exactly the
\* distinct arguments markSectionVisited was called with, in whatever order and
\* however often they were passed.
C1_VisitedIsWhatWasPassed ==
    ~bootItem.present => Range(visitedSections) = passed

C1_Witness ==
    /\ ~bootItem.present
    /\ Cardinality(passed) >= 2
    /\ lastCall.called /\ lastCall.delta = 0
    /\ visitedSections[1] # sectionIds[1]

\* C2: within one page lifetime no step removes a member from the Set; the one
\* hydration happens while the Set is still empty.
C2_VisitedNeverShrinks ==
    [][Range(visitedSections) \subseteq Range(visitedSections')]_vars

C2_Witness ==
    /\ phase = "ready"
    /\ bootItem.present
    /\ inserts >= 1
    /\ Len(visitedSections) > inserts

C4_StoredMirrorsVisited ==
    LET parsed == JsonParse(storage.text)
        prop == GetProperty(parsed.val, VISITED_SECTIONS)
    IN  lastCall.write = "accepted"
            => /\ storage.present
               /\ ~parsed.threw
               /\ ~prop.threw
               /\ prop.val.tag = "array"
               /\ Range(prop.val.v) = Range(visitedSections)

C4_Witness ==
    /\ lastCall.write = "accepted"
    /\ Len(visitedSections) > inserts
    /\ inserts >= 2

\* C5: a call with a member of the Set leaves the Set, the stored item and the
\* count of setItem calls as they were; and setItem has been called exactly as
\* often as a call added a member.
C5_MemberCallChangesNothing ==
    /\ [](setItemCalls = inserts)
    /\ [][(\E x \in Range(visitedSections) : CallOf(x))
           => /\ visitedSections' = visitedSections
              /\ storage' = storage
              /\ setItemCalls' = setItemCalls]_vars

C5_Witness ==
    /\ lastCall.called /\ lastCall.delta = 0
    /\ setItemCalls >= 2
    /\ storage.present

\* C6: a Set of strings that was saved and is hydrated by the next page start
\* has the members it had when it was saved.
C6_RoundTrip ==
    (phase = "ready" /\ bootItem.present)
        => Range(visitedSections) = savedMembers

C6_Witness ==
    /\ phase = "ready" /\ bootItem.present
    /\ Len(visitedSections) = MaxSaved
    /\ Str(<<>>) \in Range(visitedSections)

\* C7: the displayed completion percentage is an integer from 0 to 100.
C7_PercentageInRange ==
    percentageText # Unrendered => percentageText \in 0..100

\* C8: the displayed completion percentage is 100 * |visited| / total rounded to
\* the nearest integer, a half going up, the quotient being the exact rational.
C8_PercentageIsRoundHalfUp ==
    LET count == Len(visitedSections)
        total == Len(sectionIds)
    IN  percentageText # Unrendered
            => percentageText = (200 * count + total) \div (2 * total)

\* C9: a page that found a stored text that is no persisted record (no JSON, or
\* no object whose visitedSections is an array of strings) starts with an empty
\* Set: its members are only what was marked since.
C9_MalformedLoadsEmpty ==
    LET parsed == JsonParse(bootItem.text)
        prop == GetProperty(parsed.val, VISITED_SECTIONS)
        IsPersistedRecord ==
            /\ ~parsed.threw
            /\ parsed.val.tag = "object"
            /\ prop.val.tag = "array"
            /\ \A i \in 1..Len(prop.val.v) : prop.val.v[i].tag = "string"
    IN  (phase = "ready" /\ bootItem.present /\ ~IsPersistedRecord)
            => Range(visitedSections) = passed

\* C10: after a call whose write the store rejected, the argument is a member
\* of the Set and the display counts it; calling again with it changes nothing.
C10_RejectedWriteKeepsMember ==
    /\ [](lastCall.write = "rejected"
           => /\ lastCall.arg \in Range(visitedSections)
              /\ completedText = Len(visitedSections)
              /\ percentageText = Percentage(Len(visitedSections), Len(sectionIds)))
    /\ [][(lastCall.write = "rejected" /\ CallOf(lastCall.arg))
           => /\ visitedSections' = visitedSections
              /\ storage' = storage
              /\ setItemCalls' = setItemCalls]_vars

C10_Witness ==
    /\ lastCall.write = "rejected"
    /\ lastCall.arg \notin savedMembers
    /\ Len(visitedSections) >= 2

\* C11: when the store rejects a write while the observer callback works through
\* a delivery, every entry of the delivery that is more than half in view still
\* has its section in the Set when the callback is over.
C11_RejectedWriteFinishesBatch ==
    [][\A entries \in Deliveries(sectionIds) :
          (/\ SectionObserverCallback(entries, FALSE)
           /\ setItemCalls' > setItemCalls)
          => \A i \in 1..Len(entries) :
                (entries[i].isIntersecting /\ entries[i].ratio > RatioThreshold)
                => sectionIds[entries[i].target] \in Range(visitedSections')]_vars

\* C12: after the page has loaded, a step adds an id to the Set only if it is
\* the observer callback on a delivery holding an entry for that id that is
\* more than half in view; clicks and scroll updates add nothing.
C12_OnlyVisibilityAdds ==
    [][phase = "ready"
       => \A x \in Range(visitedSections') \ Range(visitedSections) :
             \E entries \in Deliveries(sectionIds), accepted \in BOOLEAN :
                /\ SectionObserverCallback(entries, accepted)
                /\ \E i \in 1..Len(entries) :
                      /\ sectionIds[entries[i].target] = x
                      /\ entries[i].isIntersecting
                      /\ entries[i].ratio > RatioThreshold]_vars

\* C13: the observer callback on a delivery adds to the Set exactly the ids of
\* the entries that are more than half in view: none at a ratio of 0.5 or less,
\* every one above it, whatever the order and repetition of the entries.
C13_CallbackAddsExactlyTheSeen ==
    [][\A entries \in Deliveries(sectionIds), accepted \in BOOLEAN :
          SectionObserverCallback(entries, accepted)
          => Range(visitedSections')
               = Range(visitedSections)
                 \cup {sectionIds[entries[i].target] :
                         i \in {j \in 1..Len(entries) :
                                  /\ entries[j].isIntersecting
                                  /\ entries[j].ratio > RatioThreshold}}]_vars

\* C14: a call of markSectionVisited with an empty or absent id adds nothing to
\* the Set and writes nothing to the store.
C14_InvalidIdIsRefused ==
    (/\ lastCall.called
     /\ \/ lastCall.arg.tag = "null"
        \/ lastCall.arg.tag = "string" /\ lastCall.arg.v = <<>>)
    => /\ lastCall.delta = 0
       /\ lastCall.write = "none"
       /\ lastCall.arg \notin Range(visitedSections)

\* C15: a page that found no record starts with an empty Set and logs no error;
\* a page that found a record, with or without fields this code does not know,
\* starts with exactly the members the record's visitedSections was saved with.
C15_UnknownFieldsIgnored ==
    phase = "ready"
    => IF bootItem.present
       THEN Range(visitedSections) = savedMembers /\ logged = "loaded"
       ELSE visitedSections = <<>> /\ logged = "none"

\* The record holds a field named visitedSections inside an unknown field.
C15_Witness ==
    /\ phase = "ready"
    /\ bootItem.present
    /\ JsonParse(bootItem.text).val.keys[1] = <<"m","e","t","a">>
    /\ Len(visitedSections) = MaxRead

\* C16: state.isSidebarOpen is true exactly when the sidebar carries the class
\* 'active'; a click on the close button leaves the sidebar closed, and leaves
\* a closed sidebar as it is.
C16_SidebarFlagMatchesClass ==
    /\ [](isSidebarOpen = sidebarActive)
    /\ [][SidebarCloseClick
           => /\ ~isSidebarOpen' /\ ~sidebarActive'
              /\ ~isSidebarOpen => UNCHANGED <<isSidebarOpen, sidebarActive>>]_vars

\* The sidebar was closed with Escape, opened again on a narrow window, and the
\* window has just been made wide.
C16_Witness ==
    /\ isSidebarOpen /\ sidebarActive
    /\ strays >= 1
    /\ resizePending /\ innerWidth > MobileWidth

\* C17 as claimed: once toggleTheme has run, state.currentTheme is DARK or
\* LIGHT, the stored theme and the body class equal it, and two toggles from a
\* configured theme have restored it.
C17_ThemeInSync ==
    themeTrail # <<>>
    => /\ currentTheme \in {DARK, LIGHT}
       /\ themeItem = Theme(currentTheme)
       /\ bodyClass = currentTheme
       /\ (Len(themeTrail) = 2 /\ themeTrail[1] \in {DARK, LIGHT})
          => currentTheme = themeTrail[1]

\* C17 as amended: once toggleTheme has run, state.currentTheme is DARK or
\* LIGHT, the body class equals it, and two toggles from a configured theme
\* have restored it; a toggle whose write the store accepts leaves the stored
\* theme equal to state.currentTheme, one whose write the store rejects leaves
\* the stored theme as it was.
C17_ThemeInSyncWhenStored ==
    /\ [](themeTrail # <<>>
           => /\ currentTheme \in {DARK, LIGHT}
              /\ bodyClass = currentTheme
              /\ (Len(themeTrail) = 2 /\ themeTrail[1] \in {DARK, LIGHT})
                 => currentTheme = themeTrail[1])
    /\ [][\A accepted \in BOOLEAN, inSidebar \in BOOLEAN :
             ThemeToggleClick(accepted, inSidebar)
             => IF accepted THEN themeItem' = Theme(currentTheme')
                ELSE themeItem' = themeItem]_vars

\* Two toggles from a theme that is not configured, the store not holding the
\* theme now shown.
C17_Witness ==
    /\ Len(themeTrail) = 2
    /\ themeTrail[1] = "blue-theme"
    /\ themeItem # Theme(currentTheme)

\* C18: konamiCode never holds more than 10 keys; a key press activates the
\* easter egg exactly when it is the sequence's last key and the 9 keys
\* buffered before it are the sequence's first 9; konamiCode is empty after an
\* activation, which therefore comes at least 10 key presses after the one
\* before.
C18_KonamiExact ==
    /\ [](Len(konamiCode) <= SliceCount)
    /\ [][\A key \in Keys, altKey \in BOOLEAN :
             KeyDown(key, altKey)
             => LET n == Len(konamiSequence)
                    completes ==
                        /\ key = konamiSequence[n]
                        /\ Len(konamiCode) >= n - 1
                        /\ \A i \in 1..(n - 1) :
                              konamiCode[Len(konamiCode) - (n - 1) + i]
                                = konamiSequence[i]
                IN  /\ activations' = activations + 1 <=> completes
                    /\ activations' = activations <=> ~completes
                    /\ completes => konamiCode' = <<>> /\ keysSince + 1 >= n]_vars

\* The easter egg was activated twice, with stray keys on the way.
C18_Witness ==
    /\ activations = MaxActivations
    /\ strays = MaxStray
    /\ konamiCode = <<>>
====
